---- MODULE Spec2Model ----
(***************************************************************************)
(* js-debug-bridge: the BrowserManager (src/js-debug-bridge/src/browser.js),*)
(* the tool handlers (src/js-debug-bridge/src/tools.js) and the MCP server  *)
(* request handlers (src/unnamed/part_000), as a state machine.             *)
(*                                                                         *)
(* An async method runs without interruption up to an await of the browser  *)
(* delegate (Playwright); the delegate then resolves or rejects at a later  *)
(* step, and the continuation runs without interruption up to the next      *)
(* await.  Calls whose continuation after the delegate's answer touches no  *)
(* manager state (navigate, screenshot, executeScript, waitForSelector)     *)
(* are one step; launchBrowser, closeBrowser and cleanup are several.       *)
(***************************************************************************)
EXTENDS Integers, Sequences, FiniteSets, Bags, TLC

\* ---------------------------------------------------------------- bounds
\* calls that may be suspended at an await at the same time
MaxCalls == 2
\* entries one log array holds
MaxLogs == 2
\* image URLs one answer of the image API holds
MaxImages == 2

\* ---------------------------------------------------------------- inputs
Ids == {"default", "t"}
\* a tool call may omit id
Omitted == "<omitted>"
IdArgs == Ids \cup {Omitted}
BrowserTypeArgs == {"chromium", "netscape", Omitted}
UrlArgs == {"https://example.com"}
\* The browser objects: <<id, n>> is the n-th of the objects launched for id
\* that a registry or a suspended call holds at the same time (the registry
\* holds at most one per id and a call at most one).  The context, the page
\* and the log array created with a browser go by the same name.
Handles == Ids \X (1..(MaxCalls + 1))

\* JS undefined, as a Map lookup returns it
Undefined == <<"undefined", 0>>
\* the array `[]` that clearConsoleLogs stores: nothing ever pushes to it
FreshArray == <<"[]", 0>>

VARIABLES
  browsers,     \* this.browsers: id -> browser handle, in insertion order
  contexts,     \* this.contexts
  pages,        \* this.pages
  consoleLogs,  \* this.consoleLogs: id -> reference of a log array
  arrays,       \* the log array created at launch for page h (by reference)
  running,      \* the browser objects held somewhere whose process runs
  leaked,       \* a process runs whose browser object nothing holds any more
  pageUrl,      \* page.url() of the page of browser h
  calls,        \* calls suspended at an await of the delegate (a bag)
  out,          \* what the last step returned, threw or emitted
  exit,         \* the process: serving, cleaning up after a signal, or exited
  pending,      \* browsers live when the signal came, no close attempted yet
  chat          \* the chat service: the tool call it is serving, or its answer

vars == <<browsers, contexts, pages, consoleLogs, arrays, running, leaked,
          pageUrl, calls, out, exit, pending, chat>>
registries == <<browsers, contexts, pages, consoleLogs>>

\* ------------------------------------------------------------- JS Map
\* A Map is the sequence of its entries in insertion order.
MapKeys(m) == {m[i].k : i \in 1..Len(m)}
MapHas(m, k) == k \in MapKeys(m)
MapIndex(m, k) == CHOOSE i \in 1..Len(m) : m[i].k = k
MapGet(m, k) == IF MapHas(m, k) THEN m[MapIndex(m, k)].v ELSE Undefined
\* set keeps the position of a key already present
MapSet(m, k, v) ==
  IF MapHas(m, k)
    THEN [m EXCEPT ![MapIndex(m, k)] = [k |-> k, v |-> v]]
    ELSE Append(m, [k |-> k, v |-> v])
MapDelete(m, k) ==
  IF MapHas(m, k)
    THEN SubSeq(m, 1, MapIndex(m, k) - 1) \o SubSeq(m, MapIndex(m, k) + 1, Len(m))
    ELSE m
EmptyMap == <<>>

\* ------------------------------------------------------------ messages
\* A message is the sequence of its pieces; text contains a message when the
\* message is a contiguous part of it.
Contains(text, msg) ==
  \E i \in 0..(Len(text) - Len(msg)) : SubSeq(text, i + 1, i + Len(msg)) = msg

AlreadyExists(id) == <<"Browser with id \"", id, "\" already exists">>
InvalidType(t) == <<"Invalid browser type: ", t>>
NoBrowserFound(id) == <<"No browser found with id \"", id, "\"">>
UnknownTool(name) == <<"Unknown tool: ", name>>
\* what the delegate rejects with
DelegateError == <<"delegate failure">>

\* -------------------------------------------------------- call outcomes
Returned(v) == [threw |-> FALSE, error |-> <<>>, value |-> v]
Threw(msg) == [threw |-> TRUE, error |-> msg, value |-> <<>>]

\* ------------------------------------------------------------ tools.js
\* tools: the advertised names, in order
tools ==
  <<"browser_launch", "browser_navigate", "browser_screenshot",
    "browser_console_logs", "browser_execute", "browser_wait_for",
    "browser_close", "browser_list">>
\* a handler table that lacks one advertised tool
toolHandlers_fewer ==
  {"browser_launch", "browser_navigate", "browser_screenshot",
   "browser_console_logs", "browser_execute", "browser_wait_for",
   "browser_close"}
\* toolHandlers: the names a handler is registered for
toolHandlers ==
  {"browser_launch", "browser_navigate", "browser_screenshot",
   "browser_console_logs", "browser_execute", "browser_wait_for",
   "browser_close", "browser_list"}
ToolNameArgs == toolHandlers \cup {"nonexistent_tool"}

\* a handler whose default id is another one
DefaultId_other(a) == IF a = Omitted THEN "t" ELSE a
\* `const { id = 'default' } = args`
DefaultId(a) == IF a = Omitted THEN "default" ELSE a
\* `browserType = 'chromium'`
DefaultBrowserType(a) == IF a = Omitted THEN "chromium" ELSE a
browserTypes == {"chromium", "firefox", "webkit"}

\* ----------------------------------------------------- the log arrays
Deref(ref) == IF ref = FreshArray THEN <<>> ELSE arrays[ref]

\* JSON.stringify(result, null, 2)
Stringify(v) == <<"JSON", v>>

\* ------------------------------------------------- the request handler
\* a request handler whose catch rethrows instead of answering
CallToolRequest_rethrow(name, outcome) ==
  IF name \notin toolHandlers
    THEN [thrown |-> TRUE, isError |-> FALSE, text |-> UnknownTool(name)]
    ELSE IF outcome.threw
      THEN [thrown |-> TRUE, isError |-> FALSE, text |-> outcome.error]
      ELSE [thrown |-> FALSE, isError |-> FALSE, text |-> Stringify(outcome.value)]
\* CallToolRequestSchema handler: what the request handler answers for tool
\* `name` whose handler ended with `outcome`
NoResponse == [thrown |-> FALSE, isError |-> FALSE, text |-> <<>>]
CallToolRequest(name, outcome) ==
  IF name \notin toolHandlers
    THEN [thrown |-> TRUE, isError |-> FALSE, text |-> UnknownTool(name)]
    ELSE IF outcome.threw
      THEN [thrown |-> FALSE, isError |-> TRUE,
            text |-> <<"Error: ">> \o outcome.error]
      ELSE [thrown |-> FALSE, isError |-> FALSE,
            text |-> Stringify(outcome.value)]

\* ------------------------------------------------------ suspended calls
\* A suspended call: the method, its id, the await it is at, the browser it
\* holds, the Map iterator's position (cleanup) and the browser type (launch).
Call(op, id, pc, h, idx, type) ==
  [op |-> op, id |-> id, pc |-> pc, h |-> h, idx |-> idx, type |-> type]

RECURSIVE SumCopies(_, _)
SumCopies(S, B) ==
  IF S = {} THEN 0
  ELSE LET x == CHOOSE y \in S : TRUE
       IN  CopiesIn(x, B) + SumCopies(S \ {x}, B)
\* the bag of F(c) for the calls c of bag B
BagImage(F(_), B) ==
  LET T == {F(x) : x \in BagToSet(B)}
  IN  [e \in T |-> SumCopies({x \in BagToSet(B) : F(x) = e}, B)]

CanSuspend == BagCardinality(calls) < MaxCalls
Suspend(c) == calls (+) SetToBag({c})
Resume(c) == calls (-) SetToBag({c})
Replace(c, d) == (calls (-) SetToBag({c})) (+) SetToBag({d})
\* A Map iterator stands on an entry; when an entry at or before it is
\* deleted the entries after it move up, and clear() moves it to the start.
IterAfterDelete(c, j) ==
  IF c.op = "cleanup" /\ j <= c.idx THEN [c EXCEPT !.idx = c.idx - 1] ELSE c
IterAfterClear(c) ==
  IF c.op = "cleanup" THEN [c EXCEPT !.idx = 0] ELSE c

\* --------------------------------------------------------------- output
\* `waited` holds the options object the step passed to the delegate's
\* page.waitForSelector, <<>> when the step did not call it
NoOut ==
  [op |-> "none", id |-> "", outcome |-> Returned(<<>>), response |-> NoResponse,
   waited |-> <<>>]
\* a tool call `op` ended: its handler's outcome and the server's answer
ToolResult(op, id, outcome) ==
  [op |-> op, id |-> id, outcome |-> outcome,
   response |-> CallToolRequest(op, outcome), waited |-> <<>>]
\* a method of the manager called directly (as the tests do) ended
MethodResult(op, id, outcome) ==
  [op |-> op, id |-> id, outcome |-> outcome, response |-> NoResponse,
   waited |-> <<>>]
\* the page of browser h emitted an event
Emitted(op, h, entry) ==
  [op |-> op, id |-> "", outcome |-> Returned([page |-> h, entry |-> entry]),
   response |-> NoResponse, waited |-> <<>>]

\* ----------------------------------------------------------------- Init
\* the chat service between two tool calls
ChatIdle ==
  [pc |-> "idle", tool |-> "", model |-> "", size |-> "", failed |-> FALSE,
   chatCalls |-> 0, imageCalls |-> 0, urls |-> 0, downloads |-> 0,
   response |-> NoResponse]
\* constructor: four empty Maps; no process started
Init ==
  /\ browsers = EmptyMap
  /\ contexts = EmptyMap
  /\ pages = EmptyMap
  /\ consoleLogs = EmptyMap
  /\ arrays = [h \in Handles |-> <<>>]
  /\ running = {}
  /\ leaked = FALSE
  /\ pageUrl = [h \in Handles |-> ""]
  /\ calls = EmptyBag
  /\ out = NoOut
  /\ exit = "serving"
  /\ pending = {}
  /\ chat = ChatIdle

\* A log array that this.consoleLogs no longer holds, and a page that
\* this.pages no longer holds, can be reached by no method of the manager:
\* they are garbage, and the model keeps nothing of them.
MapValues(m) == {m[i].v : i \in 1..Len(m)}
Collected(arr, logsMap) ==
  [h \in Handles |-> IF h \in MapValues(logsMap) THEN arr[h] ELSE <<>>]
CollectedUrls(urls, pagesMap) ==
  [h \in Handles |-> IF h \in MapValues(pagesMap) THEN urls[h] ELSE ""]

\* ------------------------------------------------------- launchBrowser
\* A browser object that is closed and that no registry and no suspended
\* call holds is gone; the object the delegate creates next takes the
\* smallest name not in use.
Held(bm, cm, pm, lm, cs) ==
  MapValues(bm) \cup MapValues(cm) \cup MapValues(pm) \cup MapValues(lm)
    \cup {c.h : c \in BagToSet(cs)}
FreeHandles(id) ==
  {h \in Handles \ Held(browsers, contexts, pages, consoleLogs, calls) : h[1] = id}
NewHandle(id) == CHOOSE h \in FreeHandles(id) : \A g \in FreeHandles(id) : h[2] <= g[2]
\* the processes that run after a step: those of them whose object nothing
\* holds any more can be closed by no method of the manager
Processes(run) ==
  LET held == Held(browsers', contexts', pages', consoleLogs', calls')
  IN  /\ running' = run \cap held
      /\ leaked' = (leaked \/ ~(run \subseteq held))
\* a launch with no duplicate check
LaunchDuplicate_never(id) == FALSE
\* browser.js:19 the duplicate check
LaunchDuplicate(id) == MapHas(browsers, id)
\* a launch with no type check
LaunchInvalidType_never(browserType) == FALSE
\* browser.js:26 the type check
LaunchInvalidType(browserType) == browserType \notin browserTypes
\* what a page just created reports as its URL
NewPageUrl == "about:blank"

\* tools.js:152-154 and browser.js:11-30: up to `await BrowserType.launch()`
browser_launch(idArg, typeArg) ==
  LET id == DefaultId(idArg)
      browserType == DefaultBrowserType(typeArg)
  IN  IF LaunchDuplicate(id)
        THEN /\ out' = ToolResult("browser_launch", id, Threw(AlreadyExists(id)))
             /\ UNCHANGED <<registries, arrays, running, leaked, pageUrl, calls>>
      ELSE IF LaunchInvalidType(browserType)
        THEN /\ out' = ToolResult("browser_launch", id, Threw(InvalidType(browserType)))
             /\ UNCHANGED <<registries, arrays, running, leaked, pageUrl, calls>>
      ELSE /\ CanSuspend
           /\ calls' = Suspend(Call("browser_launch", id, "launch", Undefined, 0, browserType))
           /\ out' = NoOut
           /\ UNCHANGED <<registries, arrays, running, leaked, pageUrl>>

\* browser.js:30-35: BrowserType.launch() answers; on success the process
\* runs and `await browser.newContext()` is next
launch_launched(c, ok) ==
  /\ BagIn(c, calls) /\ c.op = "browser_launch" /\ c.pc = "launch"
  /\ IF ok
       THEN /\ running' = running \cup {NewHandle(c.id)}
            /\ calls' = Replace(c, [c EXCEPT !.pc = "newContext", !.h = NewHandle(c.id)])
            /\ out' = NoOut
       ELSE /\ calls' = Resume(c)
            /\ out' = ToolResult("browser_launch", c.id, Threw(DelegateError))
            /\ UNCHANGED running
  /\ UNCHANGED <<registries, arrays, leaked, pageUrl>>

\* browser.js:35-36: browser.newContext() answers; `await context.newPage()`
\* is next
launch_context(c, ok) ==
  /\ BagIn(c, calls) /\ c.op = "browser_launch" /\ c.pc = "newContext"
  /\ IF ok
       THEN /\ calls' = Replace(c, [c EXCEPT !.pc = "newPage"])
            /\ out' = NoOut
       ELSE /\ calls' = Resume(c)
            /\ out' = ToolResult("browser_launch", c.id, Threw(DelegateError))
  /\ UNCHANGED <<registries, arrays, pageUrl>>
  /\ Processes(running)

\* browser.js:38-41 the four registrations
LaunchRegister(m, id, v) == MapSet(m, id, v)

\* browser.js:36-49: context.newPage() answers; on success the session is
\* registered, the listeners are attached to the array just stored, and the
\* call returns
launch_page(c, ok) ==
  /\ BagIn(c, calls) /\ c.op = "browser_launch" /\ c.pc = "newPage"
  /\ calls' = Resume(c)
  /\ IF ok
       THEN /\ browsers' = LaunchRegister(browsers, c.id, c.h)
            /\ contexts' = LaunchRegister(contexts, c.id, c.h)
            /\ pages' = LaunchRegister(pages, c.id, c.h)
            /\ consoleLogs' = LaunchRegister(consoleLogs, c.id, c.h)
            /\ pageUrl' = CollectedUrls([pageUrl EXCEPT ![c.h] = NewPageUrl], pages')
            /\ arrays' = Collected(arrays, consoleLogs')
            /\ out' = ToolResult("browser_launch", c.id,
                        Returned([id |-> c.id, browserType |-> c.type,
                                  status |-> "launched"]))
       ELSE /\ out' = ToolResult("browser_launch", c.id, Threw(DelegateError))
            /\ UNCHANGED <<registries, pageUrl, arrays>>
  /\ Processes(running)

\* ------------------------------------------------- the page operations
\* the existence check of navigate, screenshot, executeScript and
\* waitForSelector: `this.pages.get(id)` and `if (!page)`
PageOf(id) == MapGet(pages, id)
\* the URL the browser reports after loading url
NavigatedUrl(url) == IF url = "https://example.com" THEN "https://example.com/" ELSE url

\* tools.js:156-159 and browser.js:74-90
browser_navigate(idArg, url, ok) ==
  LET id == DefaultId(idArg)
      page == PageOf(id)
  IN  IF page = Undefined
        THEN /\ out' = ToolResult("browser_navigate", id, Threw(NoBrowserFound(id)))
             /\ UNCHANGED <<registries, arrays, running, leaked, pageUrl, calls>>
      ELSE IF ok /\ page \in running
        THEN /\ pageUrl' = [pageUrl EXCEPT ![page] = NavigatedUrl(url)]
             /\ out' = ToolResult("browser_navigate", id,
                         Returned([url |-> NavigatedUrl(url), status |-> "200"]))
             /\ UNCHANGED <<registries, arrays, running, leaked, calls>>
      ELSE /\ out' = ToolResult("browser_navigate", id, Threw(DelegateError))
           /\ UNCHANGED <<registries, arrays, running, leaked, pageUrl, calls>>

\* tools.js:161-164 and browser.js:92-107
browser_screenshot(idArg, ok) ==
  LET id == DefaultId(idArg)
      page == PageOf(id)
  IN  /\ out' = ToolResult("browser_screenshot", id,
                  IF page = Undefined THEN Threw(NoBrowserFound(id))
                  ELSE IF ok /\ page \in running
                    THEN Returned([data |-> "base64", type |-> "png"])
                  ELSE Threw(DelegateError))
      /\ UNCHANGED <<registries, arrays, running, leaked, pageUrl, calls>>

\* page.evaluate with no try/catch around it
ExecuteOutcome_uncaught(evaluated) ==
  IF evaluated THEN Returned([success |-> TRUE, result |-> "value"])
  ELSE Threw(DelegateError)
\* browser.js:133-144: the try/catch around page.evaluate
ExecuteOutcome(evaluated) ==
  IF evaluated THEN Returned([success |-> TRUE, result |-> "value"])
  ELSE Returned([success |-> FALSE, error |-> DelegateError])

\* tools.js:180-183 and browser.js:127-145
browser_execute(idArg, ok) ==
  LET id == DefaultId(idArg)
      page == PageOf(id)
  IN  /\ out' = ToolResult("browser_execute", id,
                  IF page = Undefined THEN Threw(NoBrowserFound(id))
                  ELSE ExecuteOutcome(ok /\ page \in running))
      /\ UNCHANGED <<registries, arrays, running, leaked, pageUrl, calls>>

\* browser.js:153-168: the try/catch around page.waitForSelector
WaitOutcome(found) ==
  IF found THEN Returned([found |-> TRUE, selector |-> "#app"])
  ELSE Returned([found |-> FALSE, selector |-> "#app", error |-> DelegateError])

\* A value that may be undefined: <<v>> is the value v, <<>> is undefined.
\* The `timeout` argument of browser_wait_for: <<n>> when the caller gives n
\* milliseconds, <<>> when the caller leaves it out.
TimeoutArgs == {<<5000>>, <<30000>>, <<>>}
\* tools.js:186-187: `timeout` is destructured with no default and put in a
\* new object, which has the key whatever the value
WaitForOptions(timeoutArg) == [timeout |-> timeoutArg]
\* object spread {...a, ...b}: every key of b overrides a's, an undefined
\* value included
Spread(a, b) ==
  [k \in DOMAIN a \cup DOMAIN b |-> IF k \in DOMAIN b THEN b[k] ELSE a[k]]
\* browser.js:154-157 `{ timeout: 30000, ...options }`
SelectorWaitOptions(options) == Spread([timeout |-> <<30000>>], options)

\* tools.js:185-188 and browser.js:147-169
browser_wait_for(idArg, timeoutArg, ok) ==
  LET id == DefaultId(idArg)
      page == PageOf(id)
  IN  /\ out' = IF page = Undefined
                  THEN ToolResult("browser_wait_for", id, Threw(NoBrowserFound(id)))
                  ELSE [ToolResult("browser_wait_for", id,
                                   WaitOutcome(ok /\ page \in running))
                          EXCEPT !.waited =
                            <<SelectorWaitOptions(WaitForOptions(timeoutArg))>>]
      /\ UNCHANGED <<registries, arrays, running, leaked, pageUrl, calls>>

\* ------------------------------------------------------ the log buffer
\* browser.js:109-116
GetConsoleLogs(id) ==
  LET logs == MapGet(consoleLogs, id)
  IN  IF logs = Undefined THEN Threw(NoBrowserFound(id)) ELSE Returned(logs)
\* what the caller finds in the array a call hands it, at that moment
Seen(outcome) ==
  IF outcome.threw THEN outcome ELSE Returned(Deref(outcome.value))
\* a clear with no existence check, and a clear that stores nothing
ClearRejects_never(id) == FALSE
ClearedLogs_kept(id) == consoleLogs
\* browser.js:119 the existence check of clearConsoleLogs
ClearRejects(id) == ~MapHas(consoleLogs, id)
\* browser.js:123 `this.consoleLogs.set(id, [])`
ClearedLogs(id) == MapSet(consoleLogs, id, FreshArray)

\* browser.js:109-116, called directly
getConsoleLogs(id) ==
  /\ out' = MethodResult("getConsoleLogs", id, Seen(GetConsoleLogs(id)))
  /\ UNCHANGED <<registries, arrays, running, leaked, pageUrl, calls>>

\* browser.js:118-125, called directly
clearConsoleLogs(id) ==
  IF ClearRejects(id)
    THEN /\ out' = MethodResult("clearConsoleLogs", id, Threw(NoBrowserFound(id)))
         /\ UNCHANGED <<registries, arrays, running, leaked, pageUrl, calls>>
    ELSE /\ consoleLogs' = ClearedLogs(id)
         /\ arrays' = Collected(arrays, consoleLogs')
         /\ out' = MethodResult("clearConsoleLogs", id, Returned([cleared |-> TRUE]))
         /\ UNCHANGED <<browsers, contexts, pages, running, leaked, pageUrl, calls>>

\* the `clear` argument of browser_console_logs: <<b>> when the caller gives
\* the boolean b, <<>> when the caller leaves it out
ClearArgs == {<<TRUE>>, <<FALSE>>, <<>>}
\* a handler that clears unless told not to
DefaultClear_true(a) == IF a = <<>> THEN TRUE ELSE a[1]
\* tools.js:167 `clear = false`
DefaultClear(a) == IF a = <<>> THEN FALSE ELSE a[1]
\* an answer built from an array that the clearing emptied in place
LogsAnswer_emptied(logs, cleared) ==
  IF cleared THEN [logs |-> <<>>, count |-> 0]
  ELSE [logs |-> Deref(logs), count |-> Len(Deref(logs))]
\* tools.js:174-177: the array got before the clearing and its length; the
\* clearing stores another array (browser.js:123) and leaves this one as
\* it was
LogsAnswer(logs, cleared) == [logs |-> Deref(logs), count |-> Len(Deref(logs))]

\* tools.js:166-178
browser_console_logs(idArg, clearArg) ==
  LET id == DefaultId(idArg)
      clear == DefaultClear(clearArg)
      got == GetConsoleLogs(id)
  IN  IF got.threw
        THEN /\ out' = ToolResult("browser_console_logs", id, got)
             /\ UNCHANGED <<registries, arrays, running, leaked, pageUrl, calls>>
      ELSE /\ consoleLogs' = IF clear THEN ClearedLogs(id) ELSE consoleLogs
           /\ arrays' = Collected(arrays, consoleLogs')
           /\ out' = ToolResult("browser_console_logs", id,
                       Returned(LogsAnswer(got.value, clear)))
           /\ UNCHANGED <<browsers, contexts, pages, running, leaked, pageUrl, calls>>

\* browser.js:52-72: the listeners push to the array that was in
\* consoleLogs when they were attached, which is the array of page h
ListenerArray(h) == h
ConsoleMessages == {[type |-> "log", text |-> "test message"]}
PageErrors == {[message |-> "boom"]}

\* the pages whose events can still be seen: open, and held by this.pages
Listening(h) == h \in running /\ h \in MapValues(pages)
Pushed(h, entry) ==
  Collected([arrays EXCEPT ![ListenerArray(h)] = Append(@, entry)], consoleLogs)

\* browser.js:55-62
console(h, msg) ==
  /\ Listening(h)
  /\ Len(arrays[ListenerArray(h)]) < MaxLogs
  /\ arrays' = Pushed(h, [type |-> msg.type, text |-> msg.text])
  /\ out' = Emitted("console", h, [type |-> msg.type, text |-> msg.text])
  /\ UNCHANGED <<registries, running, leaked, pageUrl, calls>>

\* browser.js:64-71
pageerror(h, error) ==
  /\ Listening(h)
  /\ Len(arrays[ListenerArray(h)]) < MaxLogs
  /\ arrays' = Pushed(h, [type |-> "error", text |-> error.message])
  /\ out' = Emitted("pageerror", h, [type |-> "error", text |-> error.message])
  /\ UNCHANGED <<registries, running, leaked, pageUrl, calls>>

\* -------------------------------------------------------- closeBrowser
\* a close that empties the registry
CloseDelete_all(m, id) == EmptyMap
\* a close that deletes the entries of every other id instead
CloseDelete_other(m, id) == SelectSeq(m, LAMBDA e : e.k = id)
\* a close that deletes nothing
CloseDelete_kept(m, id) == m
\* browser.js:179-182 the four deletions
CloseDelete(m, id) == MapDelete(m, id)
\* a close that forgets the log registry
CloseDeleteLogs_kept(m, id) == m
\* browser.js:182 `this.consoleLogs.delete(id)`, the last of the four
CloseDeleteLogs(m, id) == CloseDelete(m, id)

\* a close that deletes the entries although the delegate's close failed
CloseFailed_deleted(m, id) == MapDelete(m, id)
\* browser.js:177: a rejected `await browser.close()` throws out of
\* closeBrowser before the deletions of lines 179-182
CloseFailed(m, id) == m

\* tools.js:190-193 and browser.js:171-177: up to `await browser.close()`
browser_close(idArg) ==
  LET id == DefaultId(idArg)
      browser == MapGet(browsers, id)
  IN  IF browser = Undefined
        THEN /\ out' = ToolResult("browser_close", id, Threw(NoBrowserFound(id)))
             /\ UNCHANGED <<registries, arrays, running, leaked, pageUrl, calls>>
      ELSE /\ CanSuspend
           /\ calls' = Suspend(Call("browser_close", id, "close", browser, 0, ""))
           /\ out' = NoOut
           /\ UNCHANGED <<registries, arrays, running, leaked, pageUrl>>

\* browser.js:177-187: browser.close() answers; on success the process is
\* gone, the four entries of id are deleted and the call returns
close_closed(c, ok) ==
  /\ BagIn(c, calls) /\ c.op = "browser_close" /\ c.pc = "close"
  /\ IF ok
       THEN LET at == IF MapHas(browsers, c.id) THEN MapIndex(browsers, c.id)
                      ELSE Len(browsers) + 1
                after(x) == IterAfterDelete(x, at)
            IN  /\ browsers' = CloseDelete(browsers, c.id)
                /\ contexts' = CloseDelete(contexts, c.id)
                /\ pages' = CloseDelete(pages, c.id)
                /\ consoleLogs' = CloseDeleteLogs(consoleLogs, c.id)
                /\ arrays' = Collected(arrays, consoleLogs')
                /\ pageUrl' = CollectedUrls(pageUrl, pages')
                /\ calls' = BagImage(after, Resume(c))
                /\ out' = ToolResult("browser_close", c.id,
                            Returned([id |-> c.id, status |-> "closed"]))
                /\ Processes(running \ {c.h})
       ELSE /\ calls' = Resume(c)
            /\ out' = ToolResult("browser_close", c.id, Threw(DelegateError))
            /\ browsers' = CloseFailed(browsers, c.id)
            /\ contexts' = CloseFailed(contexts, c.id)
            /\ pages' = CloseFailed(pages, c.id)
            /\ consoleLogs' = CloseFailed(consoleLogs, c.id)
            /\ arrays' = Collected(arrays, consoleLogs')
            /\ pageUrl' = CollectedUrls(pageUrl, pages')
            /\ Processes(running)

\* ------------------------------------------------------------- cleanup
\* a cleanup whose catch rethrows
cleanupCatch_rethrown == "rethrown"
\* browser.js:194-196: what the catch around browser.close() does with the
\* failure
cleanupCatch == "logged"

\* browser.js:199-202 the four clear() calls, then the return
cleanup_clear(rest) ==
  /\ browsers' = EmptyMap
  /\ contexts' = EmptyMap
  /\ pages' = EmptyMap
  /\ consoleLogs' = EmptyMap
  /\ arrays' = Collected(arrays, EmptyMap)
  /\ pageUrl' = CollectedUrls(pageUrl, EmptyMap)
  /\ calls' = BagImage(IterAfterClear, rest)
  /\ out' = MethodResult("cleanup", "", Returned(<<>>))

\* browser.js:190-193: the iterator's first entry, up to
\* `await browser.close()`; with no entry, straight to the clear() calls
cleanup ==
  IF Len(browsers) = 0
    THEN /\ cleanup_clear(calls)
         /\ Processes(running)
    ELSE /\ CanSuspend
         /\ calls' = Suspend(Call("cleanup", "", "close", browsers[1].v, 1, ""))
         /\ out' = NoOut
         /\ UNCHANGED <<registries, arrays, running, leaked, pageUrl>>

\* browser.js:191-202: browser.close() answers; a failure is logged; the
\* iterator moves to the next entry of this.browsers, or the loop ends
cleanup_closed(c, ok) ==
  /\ BagIn(c, calls) /\ c.op = "cleanup" /\ c.pc = "close"
  /\ IF ~ok /\ cleanupCatch # "logged"
       THEN /\ calls' = Resume(c)
            /\ out' = MethodResult("cleanup", "", Threw(DelegateError))
            /\ UNCHANGED <<registries, arrays, pageUrl>>
     ELSE IF c.idx < Len(browsers)
       THEN /\ calls' = Replace(c, [c EXCEPT !.idx = c.idx + 1,
                                             !.h = browsers[c.idx + 1].v])
            /\ out' = NoOut
            /\ UNCHANGED <<registries, arrays, pageUrl>>
     ELSE cleanup_clear(Resume(c))
  /\ Processes(IF ok THEN running \ {c.h} ELSE running)

\* -------------------------------------------------------- listBrowsers
Null == "null"
\* browser.js:208 `this.pages.get(id)?.url() || null`
ListedUrl(id) ==
  LET page == MapGet(pages, id)
  IN  IF page = Undefined THEN Null
      ELSE IF pageUrl[page] = "" THEN Null ELSE pageUrl[page]
\* browser.js:205-210
ListBrowsers ==
  [i \in 1..Len(browsers) |-> [id |-> browsers[i].k, url |-> ListedUrl(browsers[i].k)]]

\* tools.js:195-199
browser_list ==
  /\ out' = ToolResult("browser_list", "", Returned([browsers |-> ListBrowsers]))
  /\ UNCHANGED <<registries, arrays, running, leaked, pageUrl, calls>>

\* part_000:30-36: a call of a name no handler is registered for
unknown_tool(name) ==
  /\ name \notin toolHandlers
  /\ out' = [op |-> name, id |-> "", outcome |-> Threw(UnknownTool(name)),
             response |-> CallToolRequest(name, Threw(UnknownTool(name))),
             waited |-> <<>>]
  /\ UNCHANGED <<registries, arrays, running, leaked, pageUrl, calls>>

\* part_000:26-28: the ListToolsRequestSchema handler
list_tools ==
  /\ out' = MethodResult("list_tools", "", Returned([tools |-> tools]))
  /\ UNCHANGED <<registries, arrays, running, leaked, pageUrl, calls>>

\* the value a step produced is handed to its caller (the promise settles,
\* the request handler's answer is sent); the next step starts after that
settled ==
  /\ out # NoOut
  /\ out' = NoOut
  /\ UNCHANGED <<registries, arrays, running, leaked, pageUrl, calls>>

\* ---------------------------------------------------- the chat service
\* chatgpt-assistant/src/index.ts: another process, with no state kept from
\* one tool call to the next. `chat` follows one call from the request to
\* the answer and counts the calls of the external APIs made for it.
ChatTools == <<"ask_chatgpt", "analyze_code", "game_dev_assistance", "generate_image">>
ChatToolArgs == {ChatTools[i] : i \in 1..Len(ChatTools)} \cup {"nonexistent_tool"}
ImageModelArgs == {"dall-e-2", "dall-e-3", Omitted}
ImageSizeArgs ==
  {"256x256", "512x512", "1024x1024", "1792x1024", "1024x1792", "64x64", Omitted}
\* `model = 'dall-e-3'`, `size = '1024x1024'`
DefaultImageModel(a) == IF a = Omitted THEN "dall-e-3" ELSE a
DefaultImageSize(a) == IF a = Omitted THEN "1024x1024" ELSE a
Dalle3Sizes == {"1024x1024", "1792x1024", "1024x1792"}
Dalle2Sizes == {"256x256", "512x512", "1024x1024"}
Dalle3SizeError == <<"DALL-E 3 only supports sizes: 1024x1024, 1792x1024, 1024x1792">>
Dalle2SizeError == <<"DALL-E 2 only supports sizes: 256x256, 512x512, 1024x1024">>
ApiError == <<"delegate failed">>

\* a handler with no size check
SizeCheck_none(model, size) == <<>>
\* index.ts:440-446 the size check: the message it throws, or <<>>
SizeCheck(model, size) ==
  IF model = "dall-e-3" /\ size \notin Dalle3Sizes THEN Dalle3SizeError
  ELSE IF model = "dall-e-2" /\ size \notin Dalle2Sizes THEN Dalle2SizeError
  ELSE <<>>
\* index.ts:482-485 the catch of handleImageGeneration rethrows
ImageFailed(msg) == <<"Image generation failed: ">> \o msg
\* index.ts:253-263 the catch of the request handler: the envelope it returns
ChatCaught(msg) ==
  [thrown |-> FALSE, isError |-> FALSE, text |-> <<"Error: ">> \o msg]
ChatAnswer(text) == [thrown |-> FALSE, isError |-> FALSE, text |-> text]

ChatDone(c, failed, response) ==
  [c EXCEPT !.pc = "done", !.failed = failed, !.response = response]
\* the manager of the browser service does nothing
NoBrowser ==
  UNCHANGED <<registries, arrays, running, leaked, pageUrl, calls, out, exit, pending>>

\* index.ts:233-252 and 427-446: the request handler up to the first await
\* of the tool's handler
ChatCallTool(name, modelArg, sizeArg) ==
  LET model == DefaultImageModel(modelArg)
      size == DefaultImageSize(sizeArg)
      c == [ChatIdle EXCEPT !.tool = name]
  IN  /\ chat.pc = "idle"
      /\ name # "generate_image" => modelArg = Omitted /\ sizeArg = Omitted
      /\ chat' =
           IF name \notin {ChatTools[i] : i \in 1..Len(ChatTools)}
             THEN ChatDone(c, TRUE, ChatCaught(UnknownTool(name)))
           ELSE IF name # "generate_image"
             THEN [c EXCEPT !.pc = "completions.create", !.chatCalls = 1]
           ELSE IF SizeCheck(model, size) # <<>>
             THEN ChatDone([c EXCEPT !.model = model, !.size = size], TRUE,
                           ChatCaught(ImageFailed(SizeCheck(model, size))))
           ELSE [c EXCEPT !.model = model, !.size = size,
                          !.pc = "images.generate", !.imageCalls = 1]
      /\ NoBrowser

\* index.ts:287-303: openai.chat.completions.create answers
handleChatGPTRequest(ok) ==
  /\ chat.pc = "completions.create"
  /\ chat' = IF ok THEN ChatDone(chat, FALSE, ChatAnswer(<<"response">>))
             ELSE ChatDone(chat, TRUE, ChatCaught(ApiError))
  /\ NoBrowser

\* index.ts:448-461: openai.images.generate answers with k URLs;
\* `await fs.mkdir` is next
images_generate(ok, k) ==
  /\ chat.pc = "images.generate"
  /\ chat' = IF ok THEN [chat EXCEPT !.pc = "mkdir", !.urls = k]
             ELSE ChatDone(chat, TRUE, ChatCaught(ImageFailed(ApiError)))
  /\ NoBrowser

\* the answer of handleImageGeneration, index.ts:474-481
ImageAnswer(c) == ChatAnswer(<<"Generated ", ToString(c.urls), c.model, c.size>>)

\* index.ts:461-481: fs.mkdir answers; the first download is next, or with
\* no URL the answer
mkdir(ok) ==
  /\ chat.pc = "mkdir"
  /\ chat' = IF ~ok THEN ChatDone(chat, TRUE, ChatCaught(ImageFailed(ApiError)))
             ELSE IF chat.urls = 0 THEN ChatDone(chat, FALSE, ImageAnswer(chat))
             ELSE [chat EXCEPT !.pc = "downloadImage", !.downloads = 1]
  /\ NoBrowser

\* index.ts:467-481: downloadImage answers; the next download follows, or
\* the answer
downloadImage(ok) ==
  /\ chat.pc = "downloadImage"
  /\ chat' = IF ~ok THEN ChatDone(chat, TRUE, ChatCaught(ImageFailed(ApiError)))
             ELSE IF chat.downloads = chat.urls
               THEN ChatDone(chat, FALSE, ImageAnswer(chat))
             ELSE [chat EXCEPT !.downloads = @ + 1]
  /\ NoBrowser

\* the answer is sent; the service keeps nothing of the call
chat_settled ==
  /\ chat.pc = "done"
  /\ chat' = ChatIdle
  /\ NoBrowser

NextChat ==
  \/ \E name \in ChatToolArgs, modelArg \in ImageModelArgs, sizeArg \in ImageSizeArgs :
       ChatCallTool(name, modelArg, sizeArg)
  \/ \E ok \in BOOLEAN : handleChatGPTRequest(ok)
  \/ \E ok \in BOOLEAN, k \in 0..MaxImages : images_generate(ok, k)
  \/ \E ok \in BOOLEAN : mkdir(ok)
  \/ \E ok \in BOOLEAN : downloadImage(ok)
  \/ chat_settled

SpecChat == Init /\ [][NextChat]_vars

\* ------------------------------------------------------------- signals
Signals == {"SIGINT", "SIGTERM"}
\* the browsers a browser.close() has been called on and not yet answered
Closing == {c.h : c \in {d \in BagToSet(calls) : d.pc = "close"}}

\* part_000:65-73: the handler of SIGINT and of SIGTERM, up to the first
\* `await browser.close()` inside `await browserManager.cleanup()`
signal(sig) ==
  /\ exit = "serving"
  /\ exit' = "cleanup"
  /\ IF Len(browsers) = 0
       THEN /\ cleanup_clear(calls)
            /\ Processes(running)
       ELSE /\ CanSuspend
            /\ calls' = Suspend(Call("cleanup", "", "close", browsers[1].v, 1, sig))
            /\ out' = NoOut
            /\ UNCHANGED <<registries, arrays, running, leaked, pageUrl>>
  /\ pending' = MapValues(browsers) \ Closing'
  /\ UNCHANGED chat

\* part_000:67 and 72: `process.exit(0)` once the handler's cleanup() has
\* returned
process_exit ==
  /\ exit = "cleanup"
  /\ \A c \in BagToSet(calls) : c.type \notin Signals
  /\ exit' = "exit(0)"
  /\ UNCHANGED <<registries, arrays, running, leaked, pageUrl, calls, out, pending, chat>>

\* ----------------------------------------------------------------- Next
\* the caller has taken the last answer
Idle == out = NoOut
\* the caller awaits each call before it makes the next one that suspends
OneAtATime == BagCardinality(calls') <= 1
\* no signal reaches the process, and the chat service is not called
NoSignal == UNCHANGED <<exit, pending, chat>>

\* The calls that create and destroy sessions, overlapping freely: up to
\* MaxCalls of them suspended at a time, the delegate answering in any order.
Next ==
  \/ /\ Idle /\ NoSignal
     /\ \E idArg \in IdArgs, typeArg \in BrowserTypeArgs : browser_launch(idArg, typeArg)
  \/ Idle /\ NoSignal /\ \E c \in BagToSet(calls), ok \in BOOLEAN : launch_launched(c, ok)
  \/ Idle /\ NoSignal /\ \E c \in BagToSet(calls), ok \in BOOLEAN : launch_context(c, ok)
  \/ Idle /\ NoSignal /\ \E c \in BagToSet(calls), ok \in BOOLEAN : launch_page(c, ok)
  \/ Idle /\ NoSignal /\ \E idArg \in IdArgs : browser_close(idArg)
  \/ Idle /\ NoSignal /\ \E c \in BagToSet(calls), ok \in BOOLEAN : close_closed(c, ok)
  \/ Idle /\ NoSignal /\ cleanup
  \/ Idle /\ NoSignal /\ \E c \in BagToSet(calls), ok \in BOOLEAN : cleanup_closed(c, ok)
  \/ Idle /\ NoSignal /\ browser_list
  \/ settled /\ NoSignal

Spec == Init /\ [][Next]_vars

\* Every call, at most one of them suspended at a time (each awaited before
\* the next suspends, as the tests do), with the pages' events arriving at
\* any moment.
NextEvents ==
  \/ /\ Idle /\ NoSignal
     /\ \E idArg \in IdArgs, typeArg \in BrowserTypeArgs : browser_launch(idArg, typeArg)
     /\ OneAtATime
  \/ Idle /\ NoSignal /\ \E c \in BagToSet(calls), ok \in BOOLEAN : launch_launched(c, ok)
  \/ Idle /\ NoSignal /\ \E c \in BagToSet(calls), ok \in BOOLEAN : launch_context(c, ok)
  \/ Idle /\ NoSignal /\ \E c \in BagToSet(calls), ok \in BOOLEAN : launch_page(c, ok)
  \/ /\ Idle /\ NoSignal
     /\ \E idArg \in IdArgs, url \in UrlArgs, ok \in BOOLEAN : browser_navigate(idArg, url, ok)
  \/ Idle /\ NoSignal /\ \E idArg \in IdArgs, ok \in BOOLEAN : browser_screenshot(idArg, ok)
  \/ Idle /\ NoSignal /\ \E idArg \in IdArgs, ok \in BOOLEAN : browser_execute(idArg, ok)
  \/ /\ Idle /\ NoSignal
     /\ \E idArg \in IdArgs, timeoutArg \in TimeoutArgs, ok \in BOOLEAN :
          browser_wait_for(idArg, timeoutArg, ok)
  \/ Idle /\ NoSignal /\ \E id \in Ids : getConsoleLogs(id)
  \/ Idle /\ NoSignal /\ \E id \in Ids : clearConsoleLogs(id)
  \/ /\ Idle /\ NoSignal
     /\ \E idArg \in IdArgs, clear \in ClearArgs : browser_console_logs(idArg, clear)
  \/ Idle /\ NoSignal /\ (\E idArg \in IdArgs : browser_close(idArg)) /\ OneAtATime
  \/ Idle /\ NoSignal /\ \E c \in BagToSet(calls), ok \in BOOLEAN : close_closed(c, ok)
  \/ Idle /\ NoSignal /\ cleanup /\ OneAtATime
  \/ Idle /\ NoSignal /\ \E c \in BagToSet(calls), ok \in BOOLEAN : cleanup_closed(c, ok)
  \/ Idle /\ NoSignal /\ browser_list
  \/ Idle /\ NoSignal /\ \E name \in ToolNameArgs : unknown_tool(name)
  \/ Idle /\ NoSignal /\ list_tools
  \/ Idle /\ NoSignal /\ \E h \in Handles, msg \in ConsoleMessages : console(h, msg)
  \/ Idle /\ NoSignal /\ \E h \in Handles, error \in PageErrors : pageerror(h, error)
  \/ settled /\ NoSignal

SpecEvents == Init /\ [][NextEvents]_vars

\* The process up to its exit: the calls that create and destroy sessions,
\* overlapping as in Spec, and the first termination signal.
Alive == exit # "exit(0)"
\* a browser that a close is attempted on is no longer pending
Track == exit' = exit /\ pending' = pending \ Closing' /\ UNCHANGED chat
NextSignal ==
  \/ /\ Idle /\ Alive
     /\ \E idArg \in IdArgs, typeArg \in BrowserTypeArgs : browser_launch(idArg, typeArg)
     /\ Track
  \/ Idle /\ Alive /\ (\E c \in BagToSet(calls), ok \in BOOLEAN : launch_launched(c, ok)) /\ Track
  \/ Idle /\ Alive /\ (\E c \in BagToSet(calls), ok \in BOOLEAN : launch_context(c, ok)) /\ Track
  \/ Idle /\ Alive /\ (\E c \in BagToSet(calls), ok \in BOOLEAN : launch_page(c, ok)) /\ Track
  \/ Idle /\ Alive /\ (\E idArg \in IdArgs : browser_close(idArg)) /\ Track
  \/ Idle /\ Alive /\ (\E c \in BagToSet(calls), ok \in BOOLEAN : close_closed(c, ok)) /\ Track
  \/ Idle /\ Alive /\ (\E c \in BagToSet(calls), ok \in BOOLEAN : cleanup_closed(c, ok)) /\ Track
  \/ Idle /\ \E sig \in Signals : signal(sig)
  \/ Idle /\ process_exit
  \/ settled /\ Alive /\ NoSignal

SpecSignal == Init /\ [][NextSignal]_vars

\* =============================================================== properties
Absent(id) ==
  /\ ~MapHas(browsers, id) /\ ~MapHas(contexts, id)
  /\ ~MapHas(pages, id) /\ ~MapHas(consoleLogs, id)
Live(id) == MapHas(browsers, id)
\* a step that starts no call of the delegate and changes nothing the manager holds
NothingTouched ==
  UNCHANGED <<registries, arrays, running, leaked, pageUrl, calls>>

\* C1: a launchBrowser({id}) made while id is live fails with
\* 'Browser with id "<id>" already exists', starts no browser process and
\* leaves the four registries as they were.
C1_DuplicateLaunch ==
  [][\A idArg \in IdArgs, typeArg \in BrowserTypeArgs :
       (out = NoOut /\ Live(DefaultId(idArg)) /\ browser_launch(idArg, typeArg))
         => /\ out'.op = "browser_launch"
            /\ out'.outcome = Threw(AlreadyExists(DefaultId(idArg)))
            /\ NothingTouched]_vars
C1_Witness ==
  /\ out.op = "browser_launch"
  /\ out.outcome = Threw(AlreadyExists(out.id))
  /\ Live(out.id) /\ MapGet(browsers, out.id) \in running

\* C2: when closeBrowser(id) returns, it returns {id, status: 'closed'} and
\* id is in none of the four registries; and a navigate, screenshot,
\* get_logs, clear_logs, execute, wait_for or close made on an id that is in
\* none of them fails with 'No browser found'.
C2_Closed ==
  [][/\ \A id \in Ids :
          (out'.op = "browser_close" /\ out'.id = id /\ ~out'.outcome.threw)
            => /\ out'.outcome.value = [id |-> id, status |-> "closed"]
               /\ Absent(id)'
     /\ \A idArg \in IdArgs, ok \in BOOLEAN, clear \in ClearArgs :
          (/\ out = NoOut /\ Absent(DefaultId(idArg))
           /\ \/ \E url \in UrlArgs : browser_navigate(idArg, url, ok)
              \/ browser_screenshot(idArg, ok)
              \/ browser_console_logs(idArg, clear)
              \/ idArg \in Ids /\ getConsoleLogs(idArg)
              \/ idArg \in Ids /\ clearConsoleLogs(idArg)
              \/ browser_execute(idArg, ok)
              \/ \E timeoutArg \in TimeoutArgs : browser_wait_for(idArg, timeoutArg, ok)
              \/ browser_close(idArg))
            => out'.outcome = Threw(NoBrowserFound(DefaultId(idArg)))]_vars
C2_Witness ==
  /\ out.op = "browser_close" /\ ~out.outcome.threw
  /\ out.outcome.value = [id |-> out.id, status |-> "closed"]
  /\ Absent(out.id)

\* C3: a call of a registered tool is never thrown out of the request
\* handler: a failure of the handler comes back as an envelope with isError
\* whose text contains the failure's message.
C3_ErrorsEnveloped ==
  out.op \in toolHandlers =>
    /\ ~out.response.thrown
    /\ out.response.isError = out.outcome.threw
    /\ out.outcome.threw => Contains(out.response.text, out.outcome.error)
C3_Witness ==
  /\ out.op = "browser_navigate"
  /\ out.response.isError /\ ~out.response.thrown
  /\ Contains(out.response.text, NoBrowserFound(out.id))

\* C4: a call of a tool name no handler is registered for is answered with an
\* envelope with isError whose text contains 'Unknown tool'; it is not thrown
\* out of the request handler.
C4_UnknownToolEnveloped ==
  out.op = "nonexistent_tool" =>
    /\ ~out.response.thrown
    /\ out.response.isError
    /\ Contains(out.response.text, UnknownTool(out.op))

\* C5: while id is live, every console and page-error event of its page is
\* appended to the buffer getConsoleLogs(id) returns, also after an earlier
\* clearConsoleLogs(id).
C5_EveryEventLogged ==
  [][\A id \in Ids :
       (/\ out = NoOut /\ Live(id)
        /\ out'.op \in {"console", "pageerror"}
        /\ out'.outcome.value.page = MapGet(pages, id))
         => Seen(GetConsoleLogs(id))' =
              Returned(Append(Seen(GetConsoleLogs(id)).value, out'.outcome.value.entry))]_vars

\* C6: clearConsoleLogs(id) on a live id returns {cleared: true}; a
\* getConsoleLogs(id) made next returns the empty sequence; id stays live and
\* the other three registries are unchanged.
C6_ClearEmpties ==
  [][\A id \in Ids :
       (/\ out = NoOut /\ Live(id)
        /\ out'.op = "clearConsoleLogs" /\ out'.id = id
        /\ clearConsoleLogs(id))
         => /\ out'.outcome = Returned([cleared |-> TRUE])
            /\ Seen(GetConsoleLogs(id))' = Returned(<<>>)
            /\ UNCHANGED <<browsers, contexts, pages>>
            /\ MapKeys(consoleLogs') = MapKeys(consoleLogs)]_vars
C6_Witness ==
  /\ out.op = "clearConsoleLogs" /\ out.outcome = Returned([cleared |-> TRUE])
  /\ Live(out.id)
  /\ MapGet(consoleLogs, out.id) = FreshArray
  /\ MapGet(pages, out.id) \in running

\* C7: on a live id executeScript returns {success: true, result} or
\* {success: false, error} and waitForSelector returns {found: true,
\* selector} or {found: false, selector, error}; neither throws, and the only
\* error either raises is session-not-found.
C7_SoftFailures ==
  /\ out.op = "browser_execute" =>
       IF MapHas(pages, out.id)
         THEN /\ ~out.outcome.threw
              /\ \/ out.outcome.value = [success |-> TRUE, result |-> "value"]
                 \/ out.outcome.value = [success |-> FALSE, error |-> DelegateError]
         ELSE out.outcome = Threw(NoBrowserFound(out.id))
  /\ out.op = "browser_wait_for" =>
       IF MapHas(pages, out.id)
         THEN /\ ~out.outcome.threw
              /\ \/ out.outcome.value = [found |-> TRUE, selector |-> "#app"]
                 \/ out.outcome.value =
                      [found |-> FALSE, selector |-> "#app", error |-> DelegateError]
         ELSE out.outcome = Threw(NoBrowserFound(out.id))
C7_Witness ==
  /\ out.op = "browser_execute" /\ MapHas(pages, out.id)
  /\ out.outcome.value = [success |-> FALSE, error |-> DelegateError]

\* C8: navigate, screenshot, getConsoleLogs, clearConsoleLogs, executeScript,
\* waitForSelector and closeBrowser, made on an id that is not live, each fail
\* with 'No browser found with id "<id>"', call nothing of the delegate and
\* change no registry.
C8_NotLiveRejected ==
  [][\A idArg \in IdArgs, ok \in BOOLEAN, clear \in ClearArgs :
       (/\ out = NoOut /\ ~Live(DefaultId(idArg))
        /\ \/ \E url \in UrlArgs : browser_navigate(idArg, url, ok)
           \/ browser_screenshot(idArg, ok)
           \/ browser_console_logs(idArg, clear)
           \/ idArg \in Ids /\ getConsoleLogs(idArg)
           \/ idArg \in Ids /\ clearConsoleLogs(idArg)
           \/ browser_execute(idArg, ok)
           \/ \E timeoutArg \in TimeoutArgs : browser_wait_for(idArg, timeoutArg, ok)
           \/ browser_close(idArg))
         => /\ out'.outcome = Threw(NoBrowserFound(DefaultId(idArg)))
            /\ NothingTouched]_vars
C8_Witness ==
  /\ out.op = "clearConsoleLogs"
  /\ out.outcome = Threw(NoBrowserFound(out.id))
  /\ Absent(out.id)
  /\ \E id \in Ids : Live(id)

\* C9: listBrowsers returns one {id, url} entry per live id, url being the
\* page's current URL once the session has navigated and null while it never
\* has.
C9_ListedUrls ==
  out.op = "browser_list" =>
    out.outcome.value.browsers =
      [i \in 1..Len(browsers) |->
         [id |-> browsers[i].k,
          url |-> LET page == MapGet(pages, browsers[i].k)
                  IN  IF page = Undefined \/ pageUrl[page] = NewPageUrl
                        THEN Null ELSE pageUrl[page]]]

\* C10: cleanup goes on to the next browser whether or not the close of the
\* one before failed, never throws, and when it returns the four registries
\* are empty.
C10_CleanupCompletes ==
  [][/\ out'.op = "cleanup"
          => /\ ~out'.outcome.threw
             /\ browsers' = EmptyMap /\ contexts' = EmptyMap
             /\ pages' = EmptyMap /\ consoleLogs' = EmptyMap
     /\ (out = NoOut /\ Len(browsers) > 0 /\ cleanup)
          => BagIn(Call("cleanup", "", "close", browsers[1].v, 1, ""), calls')
     /\ \A c \in BagToSet(calls), ok \in BOOLEAN :
          (out = NoOut /\ cleanup_closed(c, ok) /\ c.idx < Len(browsers))
            => BagIn(Call("cleanup", "", "close", browsers[c.idx + 1].v,
                          c.idx + 1, ""), calls')]_vars
C10_Witness ==
  /\ out.op = "cleanup" /\ ~out.outcome.threw
  /\ browsers = EmptyMap /\ consoleLogs = EmptyMap
  /\ leaked

\* a step of a launchBrowser call: its start, or an answer of the delegate
LaunchStep ==
  \/ \E idArg \in IdArgs, typeArg \in BrowserTypeArgs : browser_launch(idArg, typeArg)
  \/ \E c \in BagToSet(calls), ok \in BOOLEAN :
       launch_launched(c, ok) \/ launch_context(c, ok) \/ launch_page(c, ok)
\* a launch of an unsupported type fails with 'Invalid browser type' and
\* touches nothing, for the ids of LiveToo: the live ones as well, or not
InvalidTypeRejected(LiveToo) ==
  \A idArg \in IdArgs, typeArg \in BrowserTypeArgs :
    (/\ Idle
     /\ DefaultBrowserType(typeArg) \notin browserTypes
     /\ LiveToo \/ ~Live(DefaultId(idArg))
     /\ browser_launch(idArg, typeArg))
      => /\ out'.op = "browser_launch"
         /\ out'.outcome = Threw(InvalidType(DefaultBrowserType(typeArg)))
         /\ NothingTouched
\* a failure of the delegate at any of the three awaits ends the call with
\* that failure, and no step of a launch but its successful last one changes
\* a registry
FailedLaunchRegistersNothing ==
  /\ \A c \in BagToSet(calls) :
       (Idle /\ (launch_launched(c, FALSE) \/ launch_context(c, FALSE)
                   \/ launch_page(c, FALSE)))
         => /\ out'.op = "browser_launch" /\ out'.id = c.id
            /\ out'.outcome = Threw(DelegateError)
            /\ ~BagIn(c, calls') \/ CopiesIn(c, calls') < CopiesIn(c, calls)
  /\ (Idle /\ LaunchStep /\ ~(out'.op = "browser_launch" /\ ~out'.outcome.threw))
       => UNCHANGED registries

C12_LaunchesExclusive ==
  [][\A id \in Ids :
       (Idle /\ out'.op = "browser_launch" /\ out'.id = id /\ ~out'.outcome.threw)
         => ~Live(id)]_vars

\* everything the manager holds for id: its four entries, what the log
\* array holds, the page's URL and whether the browser's process runs
SessionOf(id) ==
  [browser |-> MapGet(browsers, id), context |-> MapGet(contexts, id),
   page |-> MapGet(pages, id), logs |-> MapGet(consoleLogs, id),
   seen |-> Seen(GetConsoleLogs(id)), url |-> ListedUrl(id),
   runs |-> MapGet(browsers, id) \in running]
\* a step of one of the eight operations on id: one that ends such a call,
\* or one that suspends or resumes a call of launchBrowser or closeBrowser
\* on id
SessionOps ==
  {"browser_launch", "browser_navigate", "browser_screenshot",
   "browser_console_logs", "getConsoleLogs", "clearConsoleLogs",
   "browser_execute", "browser_wait_for", "browser_close"}
StepOn(id) ==
  \/ out'.op \in SessionOps /\ out'.id = id
  \/ \E c \in BagToSet(calls) \cup BagToSet(calls') :
       /\ c.id = id /\ c.op # "cleanup"
       /\ CopiesIn(c, calls') # CopiesIn(c, calls)

\* C13: a step of launch, navigate, screenshot, get_logs, clear_logs,
\* execute, wait_for or close on an id leaves everything the manager holds
\* for every other id as it was: its four entries, its log, its URL and its
\* process, and so the outcome of any operation on that other id.
C13_NoInterference ==
  [][\A a \in Ids, b \in Ids :
       (a # b /\ Idle /\ StepOn(a)) => SessionOf(b)' = SessionOf(b)]_vars
C13_Witness ==
  /\ out.op = "browser_close" /\ ~out.outcome.threw
  /\ \E b \in Ids : /\ b # out.id /\ Live(b)
                    /\ MapGet(browsers, b) \in running
                    /\ Len(Seen(GetConsoleLogs(b)).value) > 0

\* C14: for each of the seven tools that take an id, a call that leaves id
\* out is the same step as the call with id "default": same session, same
\* effect, same result.
C14_DefaultId ==
  [][\A typeArg \in BrowserTypeArgs, url \in UrlArgs, ok \in BOOLEAN, clear \in ClearArgs :
       /\ (Idle /\ out'.op \in {"none", "browser_launch"})
            => (browser_launch(Omitted, typeArg) <=> browser_launch("default", typeArg))
       /\ (Idle /\ out'.op = "browser_navigate")
            => (browser_navigate(Omitted, url, ok) <=> browser_navigate("default", url, ok))
       /\ (Idle /\ out'.op = "browser_screenshot")
            => (browser_screenshot(Omitted, ok) <=> browser_screenshot("default", ok))
       /\ (Idle /\ out'.op = "browser_console_logs")
            => (browser_console_logs(Omitted, clear)
                  <=> browser_console_logs("default", clear))
       /\ (Idle /\ out'.op = "browser_execute")
            => (browser_execute(Omitted, ok) <=> browser_execute("default", ok))
       /\ (Idle /\ out'.op = "browser_wait_for")
            => \A timeoutArg \in TimeoutArgs :
                 browser_wait_for(Omitted, timeoutArg, ok)
                   <=> browser_wait_for("default", timeoutArg, ok)
       /\ (Idle /\ out'.op \in {"none", "browser_close"})
            => (browser_close(Omitted) <=> browser_close("default"))]_vars
C14_Witness ==
  /\ out.op = "browser_navigate" /\ out.id = DefaultId(Omitted)
  /\ ~out.outcome.threw /\ out.outcome.value.url = NavigatedUrl("https://example.com")
  /\ Live("default") /\ Live("t")

\* C15: when the process exits after a termination signal, a close has been
\* attempted on the browser of every session that was live when the signal
\* came, whether or not those closes failed; the exit status is 0.
C15_ClosedBeforeExit ==
  exit = "exit(0)" => pending = {}

\* C16: in the chat service every failure of a tool call (unknown tool,
\* unsupported image size, a failure of the chat or image API) is answered
\* with an envelope that has isError set and whose text contains the
\* failure's message; it is not thrown out of the request handler.
C16_ChatErrorsFlagged ==
  (chat.pc = "done" /\ chat.failed) =>
    /\ ~chat.response.thrown
    /\ chat.response.isError
    /\ chat.response.text[1] = "Error: "

\* C17: generate_image checks size against the model before any external
\* call: for dall-e-3 a size outside {1024x1024, 1792x1024, 1024x1792} and
\* for dall-e-2 a size outside {256x256, 512x512, 1024x1024} fails with the
\* size error, with no call of the image API and no download; for a size of
\* the model's set the image API is called exactly once.
C17_SizeChecked ==
  (chat.tool = "generate_image" /\ chat.model \in {"dall-e-2", "dall-e-3"}) =>
    LET supported == IF chat.model = "dall-e-3"
                       THEN {"1024x1024", "1792x1024", "1024x1792"}
                       ELSE {"256x256", "512x512", "1024x1024"}
    IN  IF chat.size \in supported
          THEN chat.imageCalls = 1
          ELSE /\ chat.pc = "done" /\ chat.failed
               /\ chat.imageCalls = 0 /\ chat.downloads = 0 /\ chat.urls = 0
               /\ Contains(chat.response.text,
                           IF chat.model = "dall-e-3" THEN Dalle3SizeError
                           ELSE Dalle2SizeError)
C17_Witness ==
  /\ chat.tool = "generate_image" /\ chat.pc = "done" /\ chat.failed
  /\ chat.model = "dall-e-3" /\ chat.size = "512x512"
  /\ chat.imageCalls = 0 /\ chat.downloads = 0

\* C18: every list-tools request, whatever came before it, returns the same
\* ordered list of the eight tools, and a call of an advertised name is
\* never answered with 'Unknown tool'.
C18_ToolListFixed ==
  /\ out.op = "list_tools" =>
       out.outcome.value.tools =
         <<"browser_launch", "browser_navigate", "browser_screenshot",
           "browser_console_logs", "browser_execute", "browser_wait_for",
           "browser_close", "browser_list">>
  /\ \A i \in 1..Len(tools) :
       out.op = tools[i] =>
         /\ ~out.response.thrown
         /\ ~Contains(out.response.text, UnknownTool(tools[i]))
C18_Witness ==
  /\ out.op = "list_tools" /\ Len(out.outcome.value.tools) = 8
  /\ \E id \in Ids : Live(id)
  /\ calls # EmptyBag

\* C19: in every state between asynchronous steps the four registries have
\* exactly the same set of keys.
C19_RegistriesAligned ==
  /\ MapKeys(contexts) = MapKeys(browsers)
  /\ MapKeys(pages) = MapKeys(browsers)
  /\ MapKeys(consoleLogs) = MapKeys(browsers)
\* a close has just removed one session while a launch is suspended and the
\* other session stays registered
C19_Witness ==
  /\ out.op = "browser_close" /\ ~out.outcome.threw
  /\ \E c \in BagToSet(calls) : c.op = "browser_launch" /\ c.id # out.id
  /\ \E id \in Ids : id # out.id /\ Live(id)
  /\ C19_RegistriesAligned

\* the set of live identifiers
LiveIds == MapKeys(browsers)
\* the steps that end a successful launchBrowser / closeBrowser of id, and
\* the step that ends a cleanup
LaunchedOk(id) ==
  out'.op = "browser_launch" /\ out'.id = id /\ ~out'.outcome.threw
ClosedOk(id) ==
  out'.op = "browser_close" /\ out'.id = id /\ ~out'.outcome.threw
CleanedUp == out'.op = "cleanup"
\* the operations that only use a session
UsingOps ==
  {"browser_navigate", "browser_screenshot", "browser_console_logs",
   "getConsoleLogs", "clearConsoleLogs", "browser_execute",
   "browser_wait_for", "browser_list"}

\* C20: an id becomes live only by a successful launchBrowser of it (and is
\* live after one), becomes absent only by a successful closeBrowser of it
\* or by cleanup (and is absent after either); navigate, screenshot,
\* getConsoleLogs, clearConsoleLogs, executeScript, waitForSelector and
\* listBrowsers never change the set of live ids, succeed or fail.
C20_Lifecycle ==
  [][Idle =>
       /\ \A id \in Ids :
            /\ (~Live(id) /\ Live(id)') => LaunchedOk(id)
            /\ (Live(id) /\ ~Live(id)') => (ClosedOk(id) \/ CleanedUp)
            /\ LaunchedOk(id) => Live(id)'
            /\ (ClosedOk(id) \/ CleanedUp) => ~Live(id)'
       /\ out'.op \in UsingOps => LiveIds' = LiveIds]_vars
\* a live id has just become absent by its close while the other id stays
\* live with a log entry recorded
C20_Witness ==
  /\ out.op = "browser_close" /\ ~out.outcome.threw
  /\ LiveIds = Ids \ {out.id}
  /\ \A b \in LiveIds : Len(Seen(GetConsoleLogs(b)).value) = MaxLogs

\* what a browser_console_logs on id would find now
LogsOf(id) == Deref(MapGet(consoleLogs, id))
\* a step that ends a browser_console_logs on id with an answer
ConsoleLogsStep(id) ==
  /\ Idle /\ out'.op = "browser_console_logs" /\ out'.id = id
  /\ ~out'.outcome.threw
Events == {"console", "pageerror"}

\* C21: browser_console_logs on a live id answers {logs, count} with count
\* the length of logs and logs the entries captured before the call; with
\* clear given as true a following call finds an empty list, and keeps
\* finding one over every step that is not an event of the page; with clear
\* false or left out the buffer is unchanged.
C21_ConsoleLogs ==
  [][\A id \in Ids :
       /\ ConsoleLogsStep(id) =>
            /\ out'.outcome.value.count = Len(out'.outcome.value.logs)
            /\ out'.outcome.value.logs = LogsOf(id)
            /\ \A idArg \in IdArgs :
                 /\ browser_console_logs(idArg, <<TRUE>>) => LogsOf(id)' = <<>>
                 /\ (browser_console_logs(idArg, <<FALSE>>)
                       \/ browser_console_logs(idArg, <<>>))
                      => UNCHANGED <<consoleLogs, arrays>>
       /\ (/\ Idle /\ out'.op \notin Events
           /\ MapHas(consoleLogs, id) /\ MapHas(consoleLogs', id)
           /\ LogsOf(id) = <<>>)
            => LogsOf(id)' = <<>>]_vars
\* a call with clear has just answered with the entries captured so far, and
\* the buffer a following call reads is the new, empty one
C21_Witness ==
  /\ out.op = "browser_console_logs" /\ ~out.outcome.threw
  /\ out.outcome.value.count = MaxLogs
  /\ MapGet(consoleLogs, out.id) = FreshArray

\* C22: browser_wait_for passes a definite number of milliseconds to the
\* delegate's selector wait: the caller's when one is given, 30000 when it
\* is left out, and never an undefined one.
C22_WaitBudget ==
  [][\A idArg \in IdArgs, timeoutArg \in TimeoutArgs, ok \in BOOLEAN :
       (/\ Idle /\ out'.op = "browser_wait_for" /\ out'.waited # <<>>
        /\ browser_wait_for(idArg, timeoutArg, ok))
         => /\ out'.waited[1].timeout # <<>>
            /\ out'.waited[1].timeout =
                 IF timeoutArg = <<>> THEN <<30000>> ELSE timeoutArg]_vars

\* a step that ends a closeBrowser(id) whose delegate close failed
CloseFailedStep(id) ==
  /\ Idle /\ out'.op = "browser_close" /\ out'.id = id
  /\ out'.outcome = Threw(DelegateError)

\* the error of a failed close goes to the caller (the request handler
\* answers it as an error envelope with its message) and the step removes
\* no entry of any registry
FailedCloseKeepsEntries(id) ==
  /\ ~out'.response.thrown /\ out'.response.isError
  /\ Contains(out'.response.text, DelegateError)
  /\ UNCHANGED <<registries, arrays, pageUrl>>
\* after the step id is live with the browser it had, its process still
\* held if it ran: a later closeBrowser(id) or cleanup finds it and a later
\* launch of id finds the duplicate
StaysLive(id) ==
  /\ LaunchDuplicate(id)'
  /\ MapGet(browsers, id)' = MapGet(browsers, id)
  /\ MapGet(browsers, id) \in running => MapGet(browsers, id) \in running'
\* as stated: after every failed close of id, id is live
C23_FailedClose_AsStated ==
  [][\A id \in Ids :
       CloseFailedStep(id) => (FailedCloseKeepsEntries(id) /\ Live(id)')]_vars

\* C23: when the delegate's close fails during closeBrowser(id), the error
\* goes to the caller and no entry of any registry is removed: an id that
\* is live when the close fails (no other close of it and no cleanup
\* removed it while this close was pending) stays live, so a later
\* closeBrowser(id) or cleanup can retry and a later launch of id is
\* rejected as a duplicate.
C23_FailedClose ==
  [][\A id \in Ids :
       CloseFailedStep(id) =>
         /\ FailedCloseKeepsEntries(id)
         /\ Live(id) => StaysLive(id)]_vars
\* a close has just failed; the id is live with its process running and its
\* log entries kept, and a launch of another id is suspended
C23_Witness ==
  /\ out.op = "browser_close" /\ out.outcome = Threw(DelegateError)
  /\ Live(out.id) /\ MapGet(browsers, out.id) \in running
  /\ calls # EmptyBag

\* no call of launchBrowser is in progress
NoLaunchInProgress == \A c \in BagToSet(calls) : c.op # "browser_launch"

\* C24: whenever no launch is in progress, every browser process that was
\* started and has not been closed is the browser of a live id: none runs
\* that no registry holds.
C24_NoLeak ==
  NoLaunchInProgress => (~leaked /\ running \subseteq MapValues(browsers))
====
